---- MODULE Spec2Model ----
(***************************************************************************)
(* Model of pm2supervisor.SupervisorGroup (src/pm2supervisor.py): the      *)
(* local cache `children` of one group, kept against the process table of  *)
(* the external manager (pm2), which is reached only through commands that *)
(* return an exit code and, for the full listing, a payload.               *)
(*                                                                         *)
(* Strings that the code inspects (process names) are sequences of         *)
(* one-character tokens, so that startswith, format and split are          *)
(* computed, not assumed.                                                  *)
(***************************************************************************)
EXTENDS Integers, Sequences, FiniteSets, TLC

VARIABLES
    children,     \* self.children: full name -> process dict
    alert_method, \* self.alert_method: "none" (None) or "set" (a callable)
    ext,          \* the external manager's process table: name -> native status or Absent
    now,          \* time.time(), in milliseconds
    op,           \* the operation that ran last
    arg,          \* its process_name argument (<<>>: none)
    cmds,         \* its commands argument (<<>>: none)
    force,        \* its force_update argument
    ret,          \* what it returned, or the exception it raised
    issued,       \* the commands it handed to _run_subprocess, with their outcomes
    alerts,       \* the alert lines it logged through alert_mail
    cbcalls,      \* the calls it made to alert_method
    pc,           \* where a caller stands inside a start or a remove that waits for
                  \* its command, while a second caller may run; Idle otherwise
    returned,     \* what that caller's operations returned, with the status the
                  \* cache held for their child at that moment
    follows       \* for a read of the cache (status without force_update, list):
                  \* the create of the same name, or the successful remove, that
                  \* ran just before it; for a resync: the resync that ran just
                  \* before it with the same outcome of `pm2 jlist`, and the
                  \* cache that one left

vars ==
    <<children, alert_method, ext, now, op, arg, cmds, force, ret, issued, alerts,
      cbcalls, pc, returned, follows>>

----------------------------------------------------------------------------
(* Bounds and the finite input sets.                                       *)

MaxNow == 1                 \* the clock advances at most this many ticks

TickMs == 1000              \* one tick of the clock, in milliseconds

GroupName == <<"g">>

ChildNames == { <<"b">>, <<"a", ":", "b">> }

\* a process of the group "gh", whose name starts with "g" but not with "g:"
OtherNames == { <<"g", "h", ":", "b">> }

Argvs == { <<"p", "x">> }

PythonPath == "/py"         \* python_path given to the constructor

WorkingDirectory == "/wd"   \* working_directory given to the constructor

Natives == { "online", "errored" }

Absent == "absent"

PmUptime == 1500            \* pm2_env.pm_uptime of every listed process (epoch millis)

ExitCodes == { 0, 1 }

\* stdout of `pm2 jlist`: a conforming array, bytes that are no JSON, a JSON
\* value that is no array (a number), an array whose elements lack pm_uptime
Payloads == { "array", "unparsable", "nonarray", "nouptime" }

----------------------------------------------------------------------------
(* Status vocabulary and command templates.                                *)

STATUS_RUNNING == "RUNNING"

STATUS_STOPPED == "NOT RUNNING"

STATUS_STARTING == "STARTING"

\* Mutant: the vocabulary is closed, an unknown native status reads as stopped.
statuses_translator_closed(native) ==
    CASE native = "online" -> STATUS_RUNNING
      [] native = "stopping" -> STATUS_STOPPED
      [] native = "stopped" -> STATUS_STOPPED
      [] native = "launching" -> STATUS_STARTING
      [] OTHER -> STATUS_STOPPED

statuses_translator(native) ==
    CASE native = "online" -> STATUS_RUNNING
      [] native = "stopping" -> STATUS_STOPPED
      [] native = "stopped" -> STATUS_STOPPED
      [] native = "launching" -> STATUS_STARTING
      [] OTHER -> native

RESTART_CMD(name) == [cmd |-> "restart", name |-> name]

STOP_CMD(name) == [cmd |-> "stop", name |-> name]

REMOVE_CMD(name) == [cmd |-> "delete", name |-> name]

ALL_STATUS_CMD == [cmd |-> "jlist"]

START_CMD(program, name, args) ==
    [cmd |-> "start", name |-> name, program |-> program, args |-> args]

\* " ".join(words), words a list of strings without blanks
RECURSIVE JoinBlank(_)
JoinBlank(words) ==
    IF words = <<>> THEN <<>>
    ELSE IF Len(words) = 1 THEN <<words[1]>>
    ELSE <<words[1], " ">> \o JoinBlank(Tail(words))

\* The text of a command: the template with its fields filled in, as a
\* sequence of pieces, each piece a blank " " or a text without blanks.
CommandLine(command) ==
    CASE command.cmd = "jlist" -> <<"pm2", " ", "jlist">>
      [] command.cmd = "restart" -> <<"pm2", " ", "restart", " ">> \o command.name
      [] command.cmd = "stop" -> <<"pm2", " ", "stop", " ">> \o command.name
      [] command.cmd = "delete" -> <<"pm2", " ", "delete", " ">> \o command.name
      [] command.cmd = "start" ->
            <<"pm2", " ", "start", " ", WorkingDirectory, "/", command.program, " ",
              "--interpreter", " ", PythonPath, " ", "--name", " ">>
            \o command.name
            \o <<" ", "--log-date-format='YYYY-MM-DD::HH:mm:ss:SSS'", " ", "--", " ">>
            \o JoinBlank(command.args)

\* text.split(" "): the parts between the blanks, empty parts included
RECURSIVE SplitBlank(_)
SplitBlank(text) ==
    LET at == { i \in 1..Len(text) : text[i] = " " }
        first == CHOOSE i \in at : \A j \in at : i <= j
    IN  IF at = {} THEN <<text>>
        ELSE <<SubSeq(text, 1, first - 1)>>
             \o SplitBlank(SubSeq(text, first + 1, Len(text)))

----------------------------------------------------------------------------
(* String helpers.                                                         *)

\* '{}:{}'.format(self.group_name, process_name)
FullName(process_name) == GroupName \o <<":">> \o process_name

\* "{}:".format(self.group_name)
group_keyword == GroupName \o <<":">>

\* name.startswith(prefix)
StartsWith(name, prefix) ==
    /\ Len(name) >= Len(prefix)
    /\ SubSeq(name, 1, Len(prefix)) = prefix

\* process_name.split(":")[-1]: what follows the last ":" of the name
LastColon(name) ==
    LET at == { i \in 1..Len(name) : name[i] = ":" }
    IN  IF at = {} THEN 0 ELSE CHOOSE i \in at : \A j \in at : j <= i

SplitLast(name) == SubSeq(name, LastColon(name) + 1, Len(name))

ExtNames == { FullName(c) : c \in ChildNames } \cup OtherNames

\* the orders in which the manager may print its table: one order and its reverse
ListingOrders ==
    { s \in [1..Cardinality(ExtNames) -> ExtNames] :
        \A i, j \in 1..Cardinality(ExtNames) : i # j => s[i] # s[j] }

Reverse(s) == [i \in 1..Len(s) |-> s[Len(s) + 1 - i]]

SomeOrder == CHOOSE s \in ListingOrders : TRUE

Orders == { SomeOrder, Reverse(SomeOrder) }

\* The states of the manager's table. The status of a process of another
\* group is never read: it is listed as online.
Tables ==
    { t \in [ExtNames -> Natives \cup {Absent}] :
        \A n \in OtherNames : t[n] \in {Absent, "online"} }

NoOrder == <<>>

\* the order of a listing whose order decides nothing
DefaultOrder == SomeOrder

----------------------------------------------------------------------------
(* The external manager.                                                   *)

\* The JSON array `pm2 jlist` prints for the table, in the order `order`.
Listed(table, order) == SelectSeq(order, LAMBDA n : table[n] # Absent)

RawProcess(table, n, kind) ==
    IF kind = "nouptime"
    THEN [name |-> n, pm2_env |-> [status |-> table[n]]]
    ELSE [name |-> n, pm2_env |-> [status |-> table[n], pm_uptime |-> PmUptime]]

JsonArray(table, order, kind) ==
    LET l == Listed(table, IF order = NoOrder THEN DefaultOrder ELSE order)
    IN  [i \in 1..Len(l) |-> RawProcess(table, l[i], kind)]

\* The manager's table after it ran a command that exited with code rc.
ManagerAfter(table, command, rc) ==
    IF rc # 0 \/ command.cmd = "jlist" \/ command.name \notin DOMAIN table
    THEN table
    ELSE CASE command.cmd = "delete" -> [table EXCEPT ![command.name] = Absent]
           [] command.cmd = "stop" ->
                 IF table[command.name] = Absent THEN table
                 ELSE [table EXCEPT ![command.name] = "stopped"]
           [] OTHER -> [table EXCEPT ![command.name] = "online"]

\* The runs of `pm2 jlist` the executor may report: a non-zero exit code, or
\* exit code 0 with one of the payloads; a conforming array comes in any order.
JlistRuns ==
    { [rc |-> rc, out |-> k, order |-> NoOrder] :
        rc \in ExitCodes \ {0}, k \in {"unparsable", "array"} }
    \cup { [rc |-> 0, out |-> k, order |-> NoOrder] : k \in Payloads \ {"array"} }
    \cup { [rc |-> 0, out |-> "array", order |-> o] : o \in Orders }

\* status(name) without force_update runs nothing.
NoRun == [rc |-> 0, out |-> "none", order |-> NoOrder]

----------------------------------------------------------------------------
(* Command Executor / Status Translator.                                   *)

\* int(x / d) for an integer x: Python's int() truncates toward zero
TruncDiv(x, d) == IF x >= 0 THEN x \div d ELSE -((-x) \div d)

\* Mutant: the operands of the subtraction are swapped.
_calculate_uptime_swapped(t, since) == TruncDiv(since - t, 1000)

\* int(now_timestamp - since/1000), with the clock t in milliseconds
_calculate_uptime(t, since) == TruncDiv(t - since, 1000)

\* process_env.get('pm_uptime') is None: since/1000 raises TypeError
UptimeRaises(process_data) == "pm_uptime" \notin DOMAIN process_data.pm2_env

\* The record _parse_pm2_info builds; of its fields the model keeps those
\* that the operations below read or compare: name, status and uptime.
_parse_pm2_info(process_data, t) ==
    [name |-> process_data.name,
     status |-> statuses_translator(process_data.pm2_env.status),
     uptime |-> _calculate_uptime(t, process_data.pm2_env.pm_uptime)]

Returned(v) == [exc |-> "none", val |-> v]

Raised(e) == [exc |-> e]

\* Mutant: the exit code is not looked at and stdout is parsed whatever it is.
get_all_processes_anycode(run, table, t) ==
    IF run.out = "unparsable" THEN Returned(<<>>)
    ELSE IF run.out = "nonarray" THEN Raised("TypeError")
    ELSE LET processes == JsonArray(table, run.order, run.out)
         IN  IF \E i \in 1..Len(processes) : UptimeRaises(processes[i])
             THEN Raised("TypeError")
             ELSE Returned([i \in 1..Len(processes) |->
                               _parse_pm2_info(processes[i], t)])

\* get_all_processes, given the run of `pm2 jlist` that _run_subprocess
\* reports: its exit code, the kind of its stdout and the order of the listing.
get_all_processes(run, table, t) ==
    IF run.rc # 0 THEN Returned(<<>>)
    ELSE IF run.out = "unparsable" THEN Returned(<<>>)
    ELSE IF run.out = "nonarray" THEN Raised("TypeError")
    ELSE LET processes == JsonArray(table, run.order, run.out)
         IN  IF \E i \in 1..Len(processes) : UptimeRaises(processes[i])
             THEN Raised("TypeError")
             ELSE Returned([i \in 1..Len(processes) |->
                               _parse_pm2_info(processes[i], t)])

----------------------------------------------------------------------------
(* Group Controller: resync.                                               *)

\* Mutant: the test is made against the group name, without the ":".
InGroup_nocolon(name) == StartsWith(name, GroupName)

\* name.startswith(group_keyword)
InGroup(name) == StartsWith(name, group_keyword)

\* The dict children_now that _recover_existent_processes builds from the
\* list `processes`: a later element replaces an earlier one of the same name.
children_now(processes) ==
    LET kept == { i \in 1..Len(processes) : InGroup(processes[i].name) }
        last(n) == CHOOSE i \in kept :
                      /\ processes[i].name = n
                      /\ \A j \in kept : processes[j].name = n => j <= i
    IN  [n \in { processes[i].name : i \in kept } |->
            [name |-> processes[last(n)].name,
             status |-> processes[last(n)].status,
             uptime |-> processes[last(n)].uptime,
             instruction |-> RESTART_CMD(n)]]

\* The keys of children_now in insertion order.
keys_in_order(processes) ==
    LET names == [i \in 1..Len(processes) |-> processes[i].name]
    IN  SelectSeq(names, InGroup)

\* The entry of `issued` for a run of `pm2 jlist`.
JlistCall(run) ==
    [command |-> ALL_STATUS_CMD, argv |-> SplitBlank(CommandLine(ALL_STATUS_CMD)),
     rc |-> run.rc, out |-> run.out]

Call(command, rc) ==
    [command |-> command, argv |-> SplitBlank(CommandLine(command)), rc |-> rc]

RetNone == [tag |-> "none"]

RetBool(b) == [tag |-> "bool", val |-> b]

RetList(s) == [tag |-> "list", val |-> s]

RetMap(m) == [tag |-> "map", val |-> m]

RetRaise(e) == [tag |-> "raise", exc |-> e]

\* A caller that is inside no operation.
Idle == [at |-> "idle"]

\* self.children = children_now: the dict and its records are new objects, a
\* record a caller took from the old dict is no longer the cache's.
Orphaned(at) == IF at = Idle THEN at ELSE [at EXCEPT !.live = FALSE]

\* The operation that ran last, as a later read of the cache records it.
NoPrev == [op |-> "none"]

Prev == [op |-> op, arg |-> arg, rc |-> issued[1].rc, ret |-> ret.val]

PrevResync == [op |-> "resync", kids |-> children]

\* The constructor: children = dict(), then _recover_existent_processes().
\* A constructor that raises yields no object.
InitOn(tables) ==
    /\ ext \in tables
    /\ now = 0
    /\ alert_method \in {"none", "set"}
    /\ \E run \in JlistRuns :
          LET r == get_all_processes(run, ext, now)
          IN  /\ r.exc = "none"
              /\ children = children_now(r.val)
              /\ issued = <<JlistCall(run)>>
    /\ op = "init"
    /\ arg = <<>>
    /\ cmds = <<>>
    /\ pc = Idle
    /\ returned = <<>>
    /\ force = FALSE
    /\ ret = RetNone
    /\ alerts = <<>>
    /\ cbcalls = <<>>
    /\ follows = NoPrev

Init == InitOn(Tables)

\* _recover_existent_processes()
Resync(run) ==
    LET r == get_all_processes(run, ext, now)
    IN  /\ op' = "resync"
        /\ arg' = <<>>
        /\ cmds' = <<>>
        /\ pc' = IF r.exc = "none" THEN Orphaned(pc) ELSE pc
        /\ returned' = returned
        /\ force' = FALSE
        /\ issued' = <<JlistCall(run)>>
        /\ children' = IF r.exc = "none" THEN children_now(r.val) ELSE children
        /\ ret' = IF r.exc = "none" THEN RetNone ELSE RetRaise(r.exc)
        /\ alerts' = <<>>
        /\ cbcalls' = <<>>
        /\ follows' = IF op = "resync" /\ issued = <<JlistCall(run)>>
                      THEN PrevResync ELSE NoPrev
        /\ UNCHANGED <<alert_method, ext, now>>

\* get_all_processes(), called from outside
GetAllProcesses(run) ==
    LET r == get_all_processes(run, ext, now)
    IN  /\ op' = "get_all_processes"
        /\ arg' = <<>>
        /\ cmds' = <<>>
        /\ pc' = pc
        /\ returned' = returned
        /\ force' = FALSE
        /\ issued' = <<JlistCall(run)>>
        /\ ret' = IF r.exc = "none" THEN RetList(r.val) ELSE RetRaise(r.exc)
        /\ alerts' = <<>>
        /\ cbcalls' = <<>>
        /\ follows' = NoPrev
        /\ UNCHANGED <<children, alert_method, ext, now>>

\* formatted_data['pm2_status'] of the parsed record of process_data; the
\* records above leave the field out, no other operation reads it.
pm2_status(process_data) == process_data.pm2_env.status

RetDict(d) == [tag |-> "dict", val |-> d]

RetStr(t) == [tag |-> "str", val |-> t]

\* get_process_information(process_name), process_name a full name
GetProcessInformation(process_name, run) ==
    LET r == get_all_processes(run, ext, now)
        found == { i \in 1..Len(r.val) : r.val[i].name = process_name }
        first == CHOOSE i \in found : \A j \in found : i <= j
    IN  /\ op' = "get_process_information"
        /\ arg' = process_name
        /\ cmds' = <<>>
        /\ pc' = pc
        /\ returned' = returned
        /\ force' = FALSE
        /\ issued' = <<JlistCall(run)>>
        /\ ret' = IF r.exc # "none" THEN RetRaise(r.exc)
                  ELSE IF found = {} THEN RetNone
                  ELSE RetDict(r.val[first])
        /\ alerts' = <<>>
        /\ cbcalls' = <<>>
        /\ follows' = NoPrev
        /\ UNCHANGED <<children, alert_method, ext, now>>

\* get_pm2_status(process_name), process_name a full name
GetPm2Status(process_name, run) ==
    LET r == get_all_processes(run, ext, now)
        found == { i \in 1..Len(r.val) : r.val[i].name = process_name }
        first == CHOOSE i \in found : \A j \in found : i <= j
    IN  /\ op' = "get_pm2_status"
        /\ arg' = process_name
        /\ cmds' = <<>>
        /\ pc' = pc
        /\ returned' = returned
        /\ force' = FALSE
        /\ issued' = <<JlistCall(run)>>
        /\ ret' = IF r.exc # "none" THEN RetRaise(r.exc)
                  ELSE IF found = {} THEN RetNone
                  ELSE RetStr(pm2_status(JsonArray(ext, run.order, run.out)[first]))
        /\ alerts' = <<>>
        /\ cbcalls' = <<>>
        /\ follows' = NoPrev
        /\ UNCHANGED <<children, alert_method, ext, now>>

\* process.get('status', self.STATUS_STOPPED)
StatusOf(process) ==
    IF "status" \in DOMAIN process THEN process.status ELSE STATUS_STOPPED

\* data['status'] = value
SetStatus(kids, name, value) ==
    [kids EXCEPT ![name] =
        [f \in DOMAIN @ \cup {"status"} |-> IF f = "status" THEN value ELSE @[f]]]

\* Mutant: the whole cache is dropped.
DeleteKey_clear(kids, name) == [n \in {} |-> kids[n]]

\* del self.children[name]
DeleteKey(kids, name) == [n \in DOMAIN kids \ {name} |-> kids[n]]

\* list()
List(run) ==
    LET r == get_all_processes(run, ext, now)
        kids == children_now(r.val)
        keys == keys_in_order(r.val)
        shorts == { SplitLast(keys[i]) : i \in 1..Len(keys) }
        \* group_processes[short_name] = ... in a loop: the last key wins
        lastkey(sn) == keys[CHOOSE i \in 1..Len(keys) :
                              /\ SplitLast(keys[i]) = sn
                              /\ \A j \in 1..Len(keys) :
                                    SplitLast(keys[j]) = sn => j <= i]
    IN  /\ op' = "list"
        /\ arg' = <<>>
        /\ cmds' = <<>>
        /\ pc' = IF r.exc = "none" THEN Orphaned(pc) ELSE pc
        /\ returned' = returned
        /\ force' = FALSE
        /\ issued' = <<JlistCall(run)>>
        /\ children' = IF r.exc = "none" THEN kids ELSE children
        /\ ret' = IF r.exc = "none"
                  THEN RetMap([sn \in shorts |-> StatusOf(kids[lastkey(sn)])])
                  ELSE RetRaise(r.exc)
        /\ alerts' = <<>>
        /\ cbcalls' = <<>>
        /\ follows' = IF op = "remove" /\ ret.val THEN Prev ELSE NoPrev
        /\ UNCHANGED <<alert_method, ext, now>>

\* Mutant: status refreshes the cache from the manager whether or not
\* force_update is given.
Status_alwaysrefresh(process_name, force_update, run) ==
    LET ran == IF force_update
               THEN run
               ELSE [rc |-> 1, out |-> "unparsable", order |-> NoOrder]
        r == get_all_processes(ran, ext, now)
        kids == children_now(r.val)
        process_fullname == FullName(process_name)
    IN  /\ op' = "status"
        /\ arg' = process_name
        /\ cmds' = <<>>
        /\ pc' = IF r.exc = "none" THEN Orphaned(pc) ELSE pc
        /\ returned' = returned
        /\ force' = force_update
        /\ issued' = <<JlistCall(ran)>>
        /\ children' = IF r.exc = "none" THEN kids ELSE children
        /\ ret' = IF r.exc # "none" THEN RetRaise(r.exc)
                  ELSE IF process_fullname \notin DOMAIN kids
                       THEN RetList(<<STATUS_STOPPED>>)
                       ELSE RetList(<<StatusOf(kids[process_fullname])>>)
        /\ alerts' = <<>>
        /\ cbcalls' = <<>>
        /\ follows' = IF ~force_update /\ op = "create" /\ arg = process_name
                      THEN Prev ELSE NoPrev
        /\ UNCHANGED <<alert_method, ext, now>>

\* status(process_name, force_update)
Status(process_name, force_update, run) ==
    LET r == IF force_update
             THEN get_all_processes(run, ext, now)
             ELSE Returned(<<>>)
        kids == IF force_update THEN children_now(r.val) ELSE children
        process_fullname == FullName(process_name)
    IN  /\ op' = "status"
        /\ arg' = process_name
        /\ cmds' = <<>>
        /\ pc' = IF force_update /\ r.exc = "none" THEN Orphaned(pc) ELSE pc
        /\ returned' = returned
        /\ force' = force_update
        /\ issued' = IF force_update THEN <<JlistCall(run)>> ELSE <<>>
        /\ children' = IF r.exc = "none" THEN kids ELSE children
        /\ ret' = IF r.exc # "none" THEN RetRaise(r.exc)
                  ELSE IF process_fullname \notin DOMAIN kids
                       THEN RetList(<<STATUS_STOPPED>>)
                       ELSE RetList(<<StatusOf(kids[process_fullname])>>)
        /\ alerts' = <<>>
        /\ cbcalls' = <<>>
        /\ follows' = IF ~force_update /\ op = "create" /\ arg = process_name
                      THEN Prev ELSE NoPrev
        /\ UNCHANGED <<alert_method, ext, now>>

\* Mutant: the log line is written only when no callback was supplied.
AlertMail_onlycallback(message, threw) ==
    /\ alerts' = IF alert_method = "none" THEN <<message>> ELSE <<>>
    /\ cbcalls' = IF alert_method = "none" THEN <<>> ELSE <<[threw |-> threw]>>

\* alert_mail(message): one error line in the log and, when a callback was
\* supplied, one call of it; `threw` tells whether that call throws (the
\* exception is caught and logged).
AlertMail(message, threw) ==
    /\ alerts' = <<message>>
    /\ cbcalls' = IF alert_method = "none" THEN <<>> ELSE <<[threw |-> threw]>>

\* Mutant: the exception of the callback leaves alert_mail.
AlertMailRaises_uncaught(threw) == alert_method # "none" /\ threw

\* Whether alert_mail raises when the callback throws: the call is wrapped in
\* try / except Exception, the exception is logged and alert_mail returns.
AlertMailRaises(threw) == FALSE

\* Mutant: the exit code is not looked at.
_operation_over_process_anycode(rc) == TRUE

\* _operation_over_process(instruction) with exit code rc
_operation_over_process(rc) == rc = 0

\* stop(process_name)
Stop(process_name, rc, threw) ==
    LET process_fullname == FullName(process_name)
        success == _operation_over_process(rc)
    IN  /\ op' = "stop"
        /\ arg' = process_name
        /\ cmds' = <<>>
        /\ pc' = pc
        /\ returned' = returned
        /\ force' = FALSE
        /\ IF process_fullname \notin DOMAIN children
           THEN /\ AlertMail([text |-> "not a child, will not be stopped",
                              name |-> process_fullname], threw)
                /\ issued' = <<>>
                /\ ret' = IF AlertMailRaises(threw)
                          THEN RetRaise("Exception")
                          ELSE RetBool(FALSE)
                /\ UNCHANGED <<children, ext>>
           ELSE /\ issued' = <<Call(STOP_CMD(process_fullname), rc)>>
                /\ ext' = ManagerAfter(ext, STOP_CMD(process_fullname), rc)
                /\ children' =
                      IF success
                      THEN SetStatus(children, process_fullname, STATUS_STOPPED)
                      ELSE children
                /\ ret' = RetBool(success)
                /\ alerts' = <<>>
                /\ cbcalls' = <<>>
        /\ follows' = NoPrev
        /\ UNCHANGED <<alert_method, now>>

\* remove(process_name)
Remove(process_name, rc, threw) ==
    LET process_fullname == FullName(process_name)
        success == _operation_over_process(rc)
    IN  /\ op' = "remove"
        /\ arg' = process_name
        /\ cmds' = <<>>
        /\ pc' = pc
        /\ returned' = returned
        /\ force' = FALSE
        /\ IF process_fullname \notin DOMAIN children
           THEN /\ AlertMail([text |-> "not a child, will not be removed",
                              name |-> process_fullname], threw)
                /\ issued' = <<>>
                /\ ret' = IF AlertMailRaises(threw)
                          THEN RetRaise("Exception")
                          ELSE RetBool(FALSE)
                /\ UNCHANGED <<children, ext>>
           ELSE /\ issued' = <<Call(REMOVE_CMD(process_fullname), rc)>>
                /\ ext' = ManagerAfter(ext, REMOVE_CMD(process_fullname), rc)
                /\ children' =
                      IF success
                      THEN DeleteKey(children, process_fullname)
                      ELSE children
                /\ ret' = RetBool(success)
                /\ alerts' = <<>>
                /\ cbcalls' = <<>>
        /\ follows' = NoPrev
        /\ UNCHANGED <<alert_method, now>>

\* Mutant: a failed start puts the status it found back.
StartOn_rollback(kids, process_name, rc) ==
    LET process_fullname == FullName(process_name)
    IN  IF process_fullname \notin DOMAIN kids
        THEN /\ issued' = <<>>
             /\ children' = kids
             /\ ret' = RetBool(FALSE)
             /\ ext' = ext
        ELSE LET instruction == kids[process_fullname].instruction
             IN  /\ issued' = <<Call(instruction, rc)>>
                 /\ ext' = ManagerAfter(ext, instruction, rc)
                 /\ children' =
                       IF rc # 0
                       THEN kids
                       ELSE SetStatus(kids, process_fullname, STATUS_RUNNING)
                 /\ ret' = RetBool(rc = 0)

\* Mutant: start inserts a child it does not know.
StartOn_autocreate(kids, process_name, rc) ==
    LET process_fullname == FullName(process_name)
    IN  IF process_fullname \notin DOMAIN kids
        THEN /\ issued' = <<>>
             /\ children' = [n \in DOMAIN kids \cup {process_fullname} |->
                                IF n = process_fullname
                                THEN [name |-> process_fullname,
                                      instruction |-> RESTART_CMD(process_fullname),
                                      status |-> STATUS_STOPPED]
                                ELSE kids[n]]
             /\ ret' = RetBool(FALSE)
             /\ ext' = ext
        ELSE LET instruction == kids[process_fullname].instruction
             IN  /\ issued' = <<Call(instruction, rc)>>
                 /\ ext' = ManagerAfter(ext, instruction, rc)
                 /\ children' =
                       IF rc # 0
                       THEN SetStatus(kids, process_fullname, STATUS_STARTING)
                       ELSE SetStatus(kids, process_fullname, STATUS_RUNNING)
                 /\ ret' = RetBool(rc = 0)

\* Mutant: a start command that failed is run a second time.
StartOn_retry(kids, process_name, rc) ==
    LET process_fullname == FullName(process_name)
    IN  IF process_fullname \notin DOMAIN kids
        THEN /\ issued' = <<>>
             /\ children' = kids
             /\ ret' = RetBool(FALSE)
             /\ ext' = ext
        ELSE LET instruction == kids[process_fullname].instruction
             IN  /\ issued' = IF rc # 0
                              THEN <<Call(instruction, rc), Call(instruction, rc)>>
                              ELSE <<Call(instruction, rc)>>
                 /\ ext' = ManagerAfter(ext, instruction, rc)
                 /\ children' =
                       IF rc # 0
                       THEN SetStatus(kids, process_fullname, STATUS_STARTING)
                       ELSE SetStatus(kids, process_fullname, STATUS_RUNNING)
                 /\ ret' = RetBool(rc = 0)

\* The body of start(process_name) on the cache `kids`, with exit code rc for
\* the one command it issues.
StartOn(kids, process_name, rc) ==
    LET process_fullname == FullName(process_name)
    IN  IF process_fullname \notin DOMAIN kids
        THEN /\ issued' = <<>>
             /\ children' = kids
             /\ ret' = RetBool(FALSE)
             /\ ext' = ext
        ELSE LET instruction == kids[process_fullname].instruction
             IN  /\ issued' = <<Call(instruction, rc)>>
                 /\ ext' = ManagerAfter(ext, instruction, rc)
                 /\ children' =
                       IF rc # 0
                       THEN SetStatus(kids, process_fullname, STATUS_STARTING)
                       ELSE SetStatus(kids, process_fullname, STATUS_RUNNING)
                 /\ ret' = RetBool(rc = 0)

\* start(process_name)
Start(process_name, rc) ==
    /\ op' = "start"
    /\ arg' = process_name
    /\ cmds' = <<>>
    /\ pc' = pc
    /\ returned' = returned
    /\ force' = FALSE
    /\ StartOn(children, process_name, rc)
    /\ alerts' = <<>>
    /\ cbcalls' = <<>>
    /\ follows' = NoPrev
    /\ UNCHANGED <<alert_method, now>>

\* Mutant: create stores the instruction built from commands also over the
\* record of a known child.
Create_overwrite(process_name, commands, rc) ==
    LET process_fullname == FullName(process_name)
        program_to_exec == commands[1]
        program_args == Tail(commands)
        instruction == START_CMD(program_to_exec, process_fullname, program_args)
        kids == [n \in DOMAIN children \cup {process_fullname} |->
                    IF n = process_fullname
                    THEN [name |-> process_fullname,
                          instruction |-> instruction,
                          status |-> STATUS_STOPPED]
                    ELSE children[n]]
    IN  /\ op' = "create"
        /\ arg' = process_name
        /\ cmds' = commands
        /\ pc' = pc
        /\ returned' = returned
        /\ force' = FALSE
        /\ StartOn(kids, process_name, rc)
        /\ alerts' = <<>>
        /\ cbcalls' = <<>>
        /\ follows' = NoPrev
        /\ UNCHANGED <<alert_method, now>>

\* create(process_name, commands), commands a non-empty list
Create(process_name, commands, rc) ==
    LET process_fullname == FullName(process_name)
        program_to_exec == commands[1]
        program_args == Tail(commands)
        instruction == START_CMD(program_to_exec, process_fullname, program_args)
        kids == IF process_fullname \notin DOMAIN children
                THEN [n \in DOMAIN children \cup {process_fullname} |->
                         IF n = process_fullname
                         THEN [name |-> process_fullname,
                               instruction |-> instruction,
                               status |-> STATUS_STOPPED]
                         ELSE children[n]]
                ELSE children
    IN  /\ op' = "create"
        /\ arg' = process_name
        /\ cmds' = commands
        /\ pc' = pc
        /\ returned' = returned
        /\ force' = FALSE
        /\ StartOn(kids, process_name, rc)
        /\ alerts' = <<>>
        /\ cbcalls' = <<>>
        /\ follows' = NoPrev
        /\ UNCHANGED <<alert_method, now>>

----------------------------------------------------------------------------
(* start and remove of one caller in the steps another caller can run       *)
(* between: up to the command, which the caller waits for, and from the     *)
(* command's return on.                                                     *)

MaxReturned == 2            \* the operations the first caller completes

\* What the first caller got back from op on child process_name.
Outcome(operation, process_name, result, kids) ==
    [op |-> operation,
     name |-> process_name,
     ret |-> result,
     cached |-> IF FullName(process_name) \in DOMAIN kids
                THEN StatusOf(kids[FullName(process_name)])
                ELSE Absent]

\* start(process_name) up to _run_subprocess: the lookup, the write of
\* STARTING into the record found and the read of its instruction.
StartBegin(process_name) ==
    LET process_fullname == FullName(process_name)
    IN  /\ pc = Idle
        /\ Len(returned) < MaxReturned
        /\ op' = "start"
        /\ arg' = process_name
        /\ cmds' = <<>>
        /\ force' = FALSE
        /\ issued' = <<>>
        /\ alerts' = <<>>
        /\ cbcalls' = <<>>
        /\ follows' = NoPrev
        /\ IF process_fullname \notin DOMAIN children
           THEN /\ ret' = RetBool(FALSE)
                /\ pc' = Idle
                /\ returned' = Append(returned,
                                  Outcome("start", process_name, RetBool(FALSE), children))
                /\ children' = children
           ELSE /\ ret' = [tag |-> "pending"]
                /\ pc' = [at |-> "start", name |-> process_name, live |-> TRUE,
                          instruction |-> children[process_fullname].instruction]
                /\ returned' = returned
                /\ children' = SetStatus(children, process_fullname, STATUS_STARTING)
        /\ UNCHANGED <<alert_method, ext, now>>

\* start from the return of _run_subprocess on: the write of RUNNING goes to
\* the record the caller holds, which is the cache's record only if no resync
\* replaced the cache in between.
StartEnd(rc) ==
    LET process_fullname == FullName(pc.name)
        kids == IF rc = 0 /\ pc.live
                THEN SetStatus(children, process_fullname, STATUS_RUNNING)
                ELSE children
    IN  /\ pc # Idle
        /\ pc.at = "start"
        /\ op' = "start"
        /\ arg' = pc.name
        /\ cmds' = <<>>
        /\ force' = FALSE
        /\ issued' = <<Call(pc.instruction, rc)>>
        /\ ext' = ManagerAfter(ext, pc.instruction, rc)
        /\ children' = kids
        /\ ret' = RetBool(rc = 0)
        /\ pc' = Idle
        /\ returned' = Append(returned, Outcome("start", pc.name, RetBool(rc = 0), kids))
        /\ alerts' = <<>>
        /\ cbcalls' = <<>>
        /\ follows' = NoPrev
        /\ UNCHANGED <<alert_method, now>>

\* remove(process_name) up to _run_subprocess: the membership test.
RemoveBegin(process_name, threw) ==
    LET process_fullname == FullName(process_name)
    IN  /\ pc = Idle
        /\ Len(returned) < MaxReturned
        /\ op' = "remove"
        /\ arg' = process_name
        /\ cmds' = <<>>
        /\ force' = FALSE
        /\ issued' = <<>>
        /\ follows' = NoPrev
        /\ IF process_fullname \notin DOMAIN children
           THEN /\ AlertMail([text |-> "not a child, will not be removed",
                              name |-> process_fullname], threw)
                /\ ret' = RetBool(FALSE)
                /\ pc' = Idle
                /\ returned' = Append(returned,
                                  Outcome("remove", process_name, RetBool(FALSE), children))
           ELSE /\ alerts' = <<>>
                /\ cbcalls' = <<>>
                /\ ret' = [tag |-> "pending"]
                /\ pc' = [at |-> "remove", name |-> process_name, live |-> TRUE,
                          instruction |-> REMOVE_CMD(process_fullname)]
                /\ returned' = returned
        /\ UNCHANGED <<children, alert_method, ext, now>>

\* Mutant: the key is dropped if it is there, children.pop(name, None).
RemoveEnd_pop(rc) ==
    LET process_fullname == FullName(pc.name)
        success == _operation_over_process(rc)
        kids == IF success THEN DeleteKey(children, process_fullname) ELSE children
    IN  /\ pc # Idle
        /\ pc.at = "remove"
        /\ op' = "remove"
        /\ arg' = pc.name
        /\ cmds' = <<>>
        /\ force' = FALSE
        /\ issued' = <<Call(pc.instruction, rc)>>
        /\ ext' = ManagerAfter(ext, pc.instruction, rc)
        /\ children' = kids
        /\ ret' = RetBool(success)
        /\ pc' = Idle
        /\ returned' = Append(returned, Outcome("remove", pc.name, RetBool(success), kids))
        /\ alerts' = <<>>
        /\ cbcalls' = <<>>
        /\ follows' = NoPrev
        /\ UNCHANGED <<alert_method, now>>

\* remove from the return of _run_subprocess on: del self.children[name]
\* raises KeyError when the cache no longer has the key.
RemoveEnd(rc) ==
    LET process_fullname == FullName(pc.name)
        success == _operation_over_process(rc)
        raises == success /\ process_fullname \notin DOMAIN children
        kids == IF success /\ ~raises
                THEN DeleteKey(children, process_fullname)
                ELSE children
        result == IF raises THEN RetRaise("KeyError") ELSE RetBool(success)
    IN  /\ pc # Idle
        /\ pc.at = "remove"
        /\ op' = "remove"
        /\ arg' = pc.name
        /\ cmds' = <<>>
        /\ force' = FALSE
        /\ issued' = <<Call(pc.instruction, rc)>>
        /\ ext' = ManagerAfter(ext, pc.instruction, rc)
        /\ children' = kids
        /\ ret' = result
        /\ pc' = Idle
        /\ returned' = Append(returned, Outcome("remove", pc.name, result, kids))
        /\ alerts' = <<>>
        /\ cbcalls' = <<>>
        /\ follows' = NoPrev
        /\ UNCHANGED <<alert_method, now>>

----------------------------------------------------------------------------
(* The environment.                                                        *)

\* A process of the manager's table is started, stopped, removed or fails
\* outside this component's control.
ExternalChange(n, v) ==
    /\ ext[n] # v
    /\ [ext EXCEPT ![n] = v] \in Tables
    /\ ext' = [ext EXCEPT ![n] = v]
    /\ op' = "external"
    /\ arg' = <<>>
    /\ cmds' = <<>>
    /\ pc' = pc
    /\ returned' = returned
    /\ force' = FALSE
    /\ ret' = RetNone
    /\ issued' = <<>>
    /\ alerts' = <<>>
    /\ cbcalls' = <<>>
    /\ follows' = NoPrev
    /\ UNCHANGED <<children, alert_method, now>>

\* Time passes between two operations; no operation runs.
Tick ==
    /\ now < MaxNow * TickMs
    /\ now' = now + TickMs
    /\ UNCHANGED <<children, alert_method, ext, op, arg, cmds, force, ret, issued,
                   alerts, cbcalls, pc, returned, follows>>

Next ==
    \/ \E run \in JlistRuns : Resync(run)
    \/ \E run \in JlistRuns : GetAllProcesses(run)
    \/ \E run \in JlistRuns : List(run)
    \/ \E c \in ChildNames, f \in BOOLEAN :
          \E run \in (IF f THEN JlistRuns ELSE {NoRun}) : Status(c, f, run)
    \/ \E c \in ChildNames, rc \in ExitCodes, threw \in BOOLEAN : Stop(c, rc, threw)
    \/ \E c \in ChildNames, rc \in ExitCodes, threw \in BOOLEAN : Remove(c, rc, threw)
    \/ \E c \in ChildNames, rc \in ExitCodes : Start(c, rc)
    \/ \E c \in ChildNames, commands \in Argvs, rc \in ExitCodes :
          Create(c, commands, rc)
    \/ \E n \in ExtNames, v \in Natives \cup {Absent} : ExternalChange(n, v)

Spec == Init /\ [][Next]_vars

\* The operations that write the cache, with the clock running.
NextClock ==
    \/ \E run \in JlistRuns : Resync(run)
    \/ \E c \in ChildNames, rc \in ExitCodes, threw \in BOOLEAN : Stop(c, rc, threw)
    \/ \E c \in ChildNames, rc \in ExitCodes, threw \in BOOLEAN : Remove(c, rc, threw)
    \/ \E c \in ChildNames, rc \in ExitCodes : Start(c, rc)
    \/ \E c \in ChildNames, commands \in Argvs, rc \in ExitCodes :
          Create(c, commands, rc)
    \/ \E n \in ExtNames, v \in Natives \cup {Absent} : ExternalChange(n, v)
    \/ Tick

SpecClock == Init /\ [][NextClock]_vars

\* The listing operations against a table that holds every native status
\* of the translation table and one that is not in it.
AllNatives == Natives \cup { "stopping", "stopped", "launching" }

AllTables == [ExtNames -> AllNatives \cup {Absent}]

NextNatives ==
    \/ \E run \in JlistRuns : Resync(run)
    \/ \E run \in JlistRuns : GetAllProcesses(run)
    \/ \E run \in JlistRuns : List(run)

SpecNatives == InitOn(AllTables) /\ [][NextNatives]_vars

\* create with argument lists of every length, among the operations that make
\* a child known or unknown.
MoreArgvs == { <<"p">>, <<"p", "x">>, <<"p", "x", "y">> }

NextArgv ==
    \/ \E run \in JlistRuns : Resync(run)
    \/ \E c \in ChildNames, rc \in ExitCodes, threw \in BOOLEAN : Remove(c, rc, threw)
    \/ \E c \in ChildNames, rc \in ExitCodes : Start(c, rc)
    \/ \E c \in ChildNames, a \in MoreArgvs, rc \in ExitCodes : Create(c, a, rc)

SpecArgv == Init /\ [][NextArgv]_vars

\* The operations that answer a caller, the two diagnostic lookups among them.
NextCalls ==
    \/ \E run \in JlistRuns : List(run)
    \/ \E c \in ChildNames, f \in BOOLEAN :
          \E run \in (IF f THEN JlistRuns ELSE {NoRun}) : Status(c, f, run)
    \/ \E c \in ChildNames, rc \in ExitCodes, threw \in BOOLEAN : Stop(c, rc, threw)
    \/ \E c \in ChildNames, rc \in ExitCodes, threw \in BOOLEAN : Remove(c, rc, threw)
    \/ \E c \in ChildNames, rc \in ExitCodes : Start(c, rc)
    \/ \E c \in ChildNames, commands \in Argvs, rc \in ExitCodes :
          Create(c, commands, rc)
    \/ \E n \in ExtNames, run \in JlistRuns : GetProcessInformation(n, run)
    \/ \E n \in ExtNames, run \in JlistRuns : GetPm2Status(n, run)

SpecCalls == Init /\ [][NextCalls]_vars

\* Two callers and no mutex: one runs start and remove in their steps, the
\* other resyncs whenever it is scheduled.
NextTwoCallers ==
    \/ \E c \in ChildNames : StartBegin(c)
    \/ \E rc \in ExitCodes : StartEnd(rc)
    \/ \E c \in ChildNames, threw \in BOOLEAN : RemoveBegin(c, threw)
    \/ \E rc \in ExitCodes : RemoveEnd(rc)
    \/ \E run \in JlistRuns : Resync(run)

SpecTwoCallers == Init /\ [][NextTwoCallers]_vars

----------------------------------------------------------------------------
(* Properties.                                                             *)

\* The name starts with the group name followed by ":".
HasGroupPrefix(n) ==
    /\ Len(n) > Len(GroupName)
    /\ \A i \in 1..Len(GroupName) : n[i] = GroupName[i]
    /\ n[Len(GroupName) + 1] = ":"

\* C1: create(C, argv) returns true exactly when the executor reports exit
\* code 0 for the command it issued, and a status(C) without force_update that
\* follows it at once returns [RUNNING] in that case and [STARTING] otherwise,
\* whether or not C was in the cache before.
C1_CreateThenStatus ==
    /\ op = "create" =>
          /\ Len(issued) = 1
          /\ ret = RetBool(issued[1].rc = 0)
    /\ (op = "status" /\ follows.op = "create") =>
          /\ follows.rc = 0 => (ret = RetList(<<"RUNNING">>) /\ follows.ret = TRUE)
          /\ follows.rc # 0 => (ret = RetList(<<"STARTING">>) /\ follows.ret = FALSE)

\* A status read right after a create that failed on a child the cache had
\* recovered from the manager (it holds the restart instruction).
C1_Witness ==
    /\ op = "status"
    /\ follows.op = "create"
    /\ follows.rc # 0
    /\ ret = RetList(<<"STARTING">>)
    /\ FullName(arg) \in DOMAIN children
    /\ children[FullName(arg)].instruction.cmd = "restart"

\* C2: in every reachable state every key of children starts with
\* groupName + ":".
C2_KeysHaveGroupPrefix == \A n \in DOMAIN children : HasGroupPrefix(n)

\* A list() that kept children of the group while the manager also listed a
\* process of another group.
C2_Witness ==
    /\ op = "list"
    /\ ret.tag = "map"
    /\ DOMAIN children # {}
    /\ \E n \in OtherNames : ext[n] # Absent

\* The names a run of `pm2 jlist` lists: none when the command failed or
\* printed no array of processes.
ListingNames(call) ==
    IF call.rc # 0 \/ call.out \in {"unparsable", "nonarray"}
    THEN {}
    ELSE { n \in ExtNames : ext[n] # Absent }

\* C3: right after any resync the keys of children are exactly the names of
\* the external listing that start with groupName + ":", each with the
\* translation of the listed status; children the listing lacks are dropped.
C3_ResyncFullReplace ==
    op = "resync" =>
        LET names == { n \in ListingNames(issued[1]) : HasGroupPrefix(n) }
        IN  /\ DOMAIN children = names
            /\ \A n \in names :
                  children[n].status =
                     (IF ext[n] = "online" THEN "RUNNING" ELSE ext[n])

\* C4: when `pm2 jlist` exits non-zero, resync leaves children empty and
\* list() returns an empty mapping; nothing is raised.
C4_ListingFailureEmptiesCache ==
    (op \in {"resync", "list"} /\ issued[1].rc # 0) =>
        /\ DOMAIN children = {}
        /\ ret.tag # "raise"
        /\ op = "list" => (ret.tag = "map" /\ DOMAIN ret.val = {})

\* A list() whose listing command failed while the manager held processes of
\* the group: the cache and the result are empty all the same.
C4_Witness ==
    /\ op = "list"
    /\ issued[1].rc # 0
    /\ ret.tag = "map"
    /\ DOMAIN ret.val = {}
    /\ DOMAIN children = {}
    /\ \E c \in ChildNames : ext[FullName(c)] # Absent

\* C5: for exit code 0 and a payload that does not parse or is not a
\* conforming array of processes, get_all_processes returns an empty sequence
\* and raises nothing.
C5_BadListingIsEmpty ==
    (op = "get_all_processes" /\ issued[1].rc = 0 /\ issued[1].out # "array") =>
        ret = RetList(<<>>)

\* C6: after remove(C) returned true the full name of C is not in children,
\* and the result of the list() that follows has no entry for C.
C6_RemovedStaysAbsent ==
    /\ (op = "remove" /\ ret = RetBool(TRUE)) => FullName(arg) \notin DOMAIN children
    /\ (op = "list" /\ follows.op = "remove" /\ ret.tag = "map") =>
          /\ FullName(follows.arg) \notin DOMAIN children
          /\ follows.arg \notin DOMAIN ret.val

\* C7: stop(C) and remove(C) on a name that is not in children run no
\* command, raise exactly one alert, return false and leave children as it was.
C7_UnknownStopRemove ==
    [][ (op' \in {"stop", "remove"} /\ FullName(arg') \notin DOMAIN children) =>
            /\ issued' = <<>>
            /\ Len(alerts') = 1
            /\ alerts'[1].name = FullName(arg')
            /\ ret' = RetBool(FALSE)
            /\ children' = children
            /\ ext' = ext ]_vars

\* A remove of an unknown child with a callback supplied.
C7_Witness ==
    /\ op = "remove"
    /\ FullName(arg) \notin DOMAIN children
    /\ ret = RetBool(FALSE)
    /\ issued = <<>>
    /\ Len(alerts) = 1
    /\ Len(cbcalls) = 1

\* C8: start(C) on a name that is not in children returns false, runs no
\* command and does not insert the child.
C8_UnknownStart ==
    [][ (op' = "start" /\ FullName(arg') \notin DOMAIN children) =>
            /\ ret' = RetBool(FALSE)
            /\ issued' = <<>>
            /\ children' = children
            /\ ext' = ext ]_vars

\* A start of a child that neither the cache nor the manager knows.
C8_Witness ==
    /\ op = "start"
    /\ ret = RetBool(FALSE)
    /\ issued = <<>>
    /\ FullName(arg) \notin DOMAIN children
    /\ ext[FullName(arg)] = Absent

\* C9: stop(C) on a known child issues the stop command; on exit code 0 the
\* status becomes STOPPED and stop returns true, on another exit code stop
\* returns false and children is unchanged.
C9_StopOnlyOnSuccess ==
    [][ (op' = "stop" /\ FullName(arg') \in DOMAIN children) =>
            LET name == FullName(arg')
            IN  /\ Len(issued') = 1
                /\ issued'[1].command = [cmd |-> "stop", name |-> name]
                /\ issued'[1].rc = 0 =>
                      /\ ret' = RetBool(TRUE)
                      /\ DOMAIN children' = DOMAIN children
                      /\ children'[name].status = "NOT RUNNING"
                      /\ \A n \in DOMAIN children \ {name} : children'[n] = children[n]
                /\ issued'[1].rc # 0 =>
                      /\ ret' = RetBool(FALSE)
                      /\ children' = children ]_vars

\* A stop that failed on a child whose cached status is RUNNING.
C9_Witness ==
    /\ op = "stop"
    /\ Len(issued) = 1
    /\ issued[1].rc # 0
    /\ ret = RetBool(FALSE)
    /\ children[FullName(arg)].status = "RUNNING"

\* C10: remove(C) on a known child issues the delete command; on a non-zero
\* exit code it returns false and children is unchanged, on exit code 0 it
\* returns true and exactly the entry of C is deleted.
C10_RemoveOnlyOnSuccess ==
    [][ (op' = "remove" /\ FullName(arg') \in DOMAIN children) =>
            LET name == FullName(arg')
            IN  /\ Len(issued') = 1
                /\ issued'[1].command = [cmd |-> "delete", name |-> name]
                /\ issued'[1].rc # 0 =>
                      /\ ret' = RetBool(FALSE)
                      /\ children' = children
                /\ issued'[1].rc = 0 =>
                      /\ ret' = RetBool(TRUE)
                      /\ DOMAIN children' = DOMAIN children \ {name}
                      /\ \A n \in DOMAIN children' : children'[n] = children[n] ]_vars

\* A successful remove that left another child in the cache.
C10_Witness ==
    /\ op = "remove"
    /\ Len(issued) = 1
    /\ issued[1].rc = 0
    /\ ret = RetBool(TRUE)
    /\ FullName(arg) \notin DOMAIN children
    /\ DOMAIN children # {}

\* C11 as stated: a resync that follows a resync, with the same outcome of
\* `pm2 jlist` and no change of the manager's table in between, leaves a
\* children mapping identical in every field, the uptime included.
C11_ResyncIdempotent ==
    (op = "resync" /\ follows.op = "resync") => children = follows.kids

\* C11 as amended: the two mappings have the same keys and agree on every
\* field but uptime; uptime is read off the clock at each resync, so the
\* second resync may store another uptime, never a smaller one.
C11_ResyncIdempotentButUptime ==
    (op = "resync" /\ follows.op = "resync") =>
        /\ DOMAIN children = DOMAIN follows.kids
        /\ \A n \in DOMAIN children :
              /\ DOMAIN children[n] = DOMAIN follows.kids[n]
              /\ \A f \in DOMAIN children[n] \ {"uptime"} :
                    children[n][f] = follows.kids[n][f]
              /\ "uptime" \in DOMAIN children[n] =>
                    children[n].uptime >= follows.kids[n].uptime

\* A second resync, run after the clock moved, that lists the same processes
\* with another uptime.
C11_Witness ==
    /\ op = "resync"
    /\ follows.op = "resync"
    /\ now > 0
    /\ DOMAIN children # {}
    /\ \E n \in DOMAIN children : children[n].uptime # follows.kids[n].uptime

\* The status the translation table of the specification gives.
TranslationOf(native) ==
    IF native = "online" THEN "RUNNING"
    ELSE IF native = "stopping" THEN "NOT RUNNING"
    ELSE IF native = "stopped" THEN "NOT RUNNING"
    ELSE IF native = "launching" THEN "STARTING"
    ELSE native

\* C12: the status of every parsed process is RUNNING for online, STOPPED for
\* stopping and for stopped, STARTING for launching, and the native string
\* itself for every other native status.
C12_TranslateStatus ==
    /\ (op = "get_all_processes" /\ ret.tag = "list") =>
          \A i \in 1..Len(ret.val) :
             ret.val[i].status = TranslationOf(ext[ret.val[i].name])
    /\ (op = "resync" /\ ret.tag = "none") =>
          \A n \in DOMAIN children : children[n].status = TranslationOf(ext[n])

\* A listing that holds a stopping, a launching and an errored process, parsed
\* into STOPPED, STARTING and errored.
C12_Witness ==
    /\ op = "get_all_processes"
    /\ ret.tag = "list"
    /\ \E i, j, k \in 1..Len(ret.val) :
          /\ ext[ret.val[i].name] = "stopping" /\ ret.val[i].status = "NOT RUNNING"
          /\ ext[ret.val[j].name] = "launching" /\ ret.val[j].status = "STARTING"
          /\ ext[ret.val[k].name] = "errored" /\ ret.val[k].status = "errored"

\* C13: create on a child that is already in children leaves its stored
\* instruction as it was and hands exactly that stored instruction to the
\* executor, the restart command for a child a resync took in, never the start
\* command built from the commands given.
C13_CreateKeepsInstruction ==
    [][(op' = "create" /\ FullName(arg') \in DOMAIN children) =>
          /\ FullName(arg') \in DOMAIN children'
          /\ children'[FullName(arg')].instruction = children[FullName(arg')].instruction
          /\ Len(issued') = 1
          /\ issued'[1].command = children[FullName(arg')].instruction]_vars

\* create has run on a child a resync took in: the restart command was issued.
C13_Witness ==
    /\ op = "create"
    /\ Len(issued) = 1
    /\ issued[1].command = RESTART_CMD(FullName(arg))
    /\ children[FullName(arg)].instruction = RESTART_CMD(FullName(arg))

\* C14: immediately after any resync every child in children holds the restart
\* command for its full name as its instruction, also a child that held a
\* start instruction built by create before.
C14_ResyncGivesRestart ==
    op = "resync" =>
        \A n \in DOMAIN children : children[n].instruction = RESTART_CMD(n)

\* What follows the prefix group name + ":" in a full name of the group.
AfterPrefix(name) == SubSeq(name, Len(group_keyword) + 1, Len(name))

\* C15: list() returns one entry per child of the group in the listing, keyed
\* by what follows the prefix group name + ":" and holding that child's status,
\* so that distinct children have distinct keys, also when a child name holds
\* a ":" itself.
C15_ListKeyedAfterPrefix ==
    (op = "list" /\ ret.tag = "map") =>
        /\ DOMAIN ret.val = { AfterPrefix(n) : n \in DOMAIN children }
        /\ \A n \in DOMAIN children : ret.val[AfterPrefix(n)] = children[n].status

\* C16: a callback that throws does not abort the operation that alerted:
\* stop(C) and remove(C) on a name that is not in children still return false
\* and leave children as it was; and when no callback was supplied none is
\* called.
C16_CallbackFailureContained ==
    [][ (op' \in {"stop", "remove"} /\ FullName(arg') \notin DOMAIN children) =>
            /\ alert_method = "none" => cbcalls' = <<>>
            /\ (cbcalls' # <<>> /\ cbcalls'[1].threw) =>
                  /\ ret' = RetBool(FALSE)
                  /\ children' = children ]_vars

\* A stop of an unknown child whose alert callback threw, and returned false.
C16_Witness ==
    /\ op = "stop"
    /\ FullName(arg) \notin DOMAIN children
    /\ cbcalls = <<[threw |-> TRUE]>>
    /\ ret = RetBool(FALSE)

\* The arguments the start template gives for a program, a full name and the
\* words after the program, none of them empty.
StartArgv(commands, name) ==
    << <<"pm2">>, <<"start">>, <<WorkingDirectory, "/", commands[1]>>,
       <<"--interpreter">>, <<PythonPath>>, <<"--name">>, name,
       <<"--log-date-format='YYYY-MM-DD::HH:mm:ss:SSS'">>, <<"--">> >>
    \o [i \in 1..(Len(commands) - 1) |-> <<commands[i + 1]>>]

\* C17: create on a child that is not in children hands the executor the
\* start template filled with working directory / program, the interpreter,
\* the full name and the arguments joined by blanks, split at the blanks, with
\* no empty argument, also when there are no arguments after the program.
C17_CreateStartArgv ==
    [][ (op' = "create" /\ FullName(arg') \notin DOMAIN children) =>
            /\ Len(issued') = 1
            /\ issued'[1].argv = StartArgv(cmds', FullName(arg'))
            /\ \A i \in 1..Len(issued'[1].argv) : issued'[1].argv[i] # <<>> ]_vars

\* C18: status(name) without force_update only reads the cache: it runs no
\* command, leaves children as it was and returns one element, the status the
\* cache holds for the child, STOPPED when the cache has no such child. With
\* force_update it runs the listing command exactly once, and what it returns
\* is read from the cache that resync left.
C18_StatusReadsCache ==
    [][ op' = "status" =>
            /\ ~force' =>
                  /\ issued' = <<>>
                  /\ children' = children
                  /\ ret' = RetList(<<IF FullName(arg') \in DOMAIN children
                                     THEN children[FullName(arg')].status
                                     ELSE "NOT RUNNING">>)
            /\ force' =>
                  /\ Len(issued') = 1
                  /\ issued'[1].command = ALL_STATUS_CMD
                  /\ (ret'.tag = "list" /\ issued'[1].rc = 0 /\ issued'[1].out = "array") =>
                        DOMAIN children' =
                           { n \in DOMAIN ext : ext[n] # Absent /\ HasGroupPrefix(n) }
                  /\ ret'.tag = "list" =>
                        ret' = RetList(<<IF FullName(arg') \in DOMAIN children'
                                          THEN children'[FullName(arg')].status
                                          ELSE "NOT RUNNING">>) ]_vars

\* A status read without force_update of a child the manager runs and the
\* cache does not hold: nothing was run and the answer is STOPPED.
C18_Witness ==
    /\ op = "status"
    /\ ~force
    /\ issued = <<>>
    /\ FullName(arg) \notin DOMAIN children
    /\ ext[FullName(arg)] = "online"
    /\ ret = RetList(<<"NOT RUNNING">>)

\* The operations C19 names.
CallerOps ==
    { "list", "status", "create", "start", "stop", "remove",
      "get_process_information", "get_pm2_status" }

\* C19 as stated: an operation runs at most one command, and when that command
\* failed the operation returns false or an empty result.
C19_NoRetryFalseOrEmpty ==
    op \in CallerOps =>
        /\ Len(issued) <= 1
        /\ (Len(issued) = 1 /\ issued[1].rc # 0) =>
              \/ ret.tag = "bool" /\ ret.val = FALSE
              \/ ret.tag \in {"map", "list"} /\ ret.val = <<>>
              \/ ret.tag = "none"

\* C19, amended: an operation runs at most one command, and when that command
\* failed the operation returns once, without raising: false from create,
\* start, stop and remove, the empty map from list, None from the two
\* lookups, and from a status with force_update the one-element answer
\* [STOPPED], the cache having been emptied.
C19_NoRetry ==
    op \in CallerOps =>
        /\ Len(issued) <= 1
        /\ (Len(issued) = 1 /\ issued[1].rc # 0) =>
              /\ op \in {"create", "start", "stop", "remove"} => ret = RetBool(FALSE)
              /\ op = "list" => ret = RetMap(<<>>)
              /\ op \in {"get_process_information", "get_pm2_status"} => ret = RetNone
              /\ op = "status" =>
                    /\ ret = RetList(<<"NOT RUNNING">>)
                    /\ children = <<>>

\* A status with force_update whose listing command failed.
C19_Witness ==
    /\ op = "status"
    /\ force
    /\ Len(issued) = 1
    /\ issued[1].rc # 0
    /\ ret = RetList(<<"NOT RUNNING">>)
    /\ \E n \in DOMAIN ext : ext[n] # Absent /\ HasGroupPrefix(n)

\* C20: without a mutex start and remove are not atomic with respect to a
\* resync of a second caller. When a resync replaced the cache while start
\* waited for its command, start still returns true on exit code 0 and the
\* cache stays as the resync left it, so the record of the child need not be
\* RUNNING; without such a resync the record is RUNNING. When remove's command
\* exits with 0 and the key is no longer in children, the deletion raises
\* instead of returning a boolean, which happens only after such a resync.
C20_NotAtomicWithResync ==
    [][ /\ (pc # Idle /\ pc.at = "start" /\ pc' = Idle /\ issued'[1].rc = 0) =>
              /\ ret' = RetBool(TRUE)
              /\ ~pc.live => children' = children
              /\ pc.live => children'[FullName(pc.name)].status = "RUNNING"
        /\ (pc # Idle /\ pc.at = "remove" /\ pc' = Idle /\ issued'[1].rc = 0) =>
              /\ FullName(pc.name) \notin DOMAIN children =>
                    /\ ~pc.live
                    /\ ret' = RetRaise("KeyError")
                    /\ children' = children
              /\ FullName(pc.name) \in DOMAIN children =>
                    /\ ret' = RetBool(TRUE)
                    /\ FullName(pc.name) \notin DOMAIN children' ]_vars

\* One caller has got true from a start whose child the cache then did not
\* hold as RUNNING, and a KeyError from a remove.
C20_Witness ==
    \E i, j \in 1..Len(returned) :
        /\ returned[i].op = "start"
        /\ returned[i].ret.tag = "bool"
        /\ returned[i].ret.val
        /\ returned[i].cached # "RUNNING"
        /\ returned[j].op = "remove"
        /\ returned[j].ret.tag = "raise"

====
